---- MODULE Spec2Model ----
(***************************************************************************)
(* The indexed datasets of few_shot/datasets.py: construction (subset      *)
(* check, Index Builder, Label Encoder) and the per-item __getitem__ of    *)
(* OmniglotDataset, MiniImageNet, ImageNetKamonDataset, DummyDataset,      *)
(* KamonDataset, OldKamonDataset and LogoDataset.                          *)
(*                                                                         *)
(* Strings that the code compares, sorts, splits or tests with endswith    *)
(* are sequences of character codes; exception kinds and tags are TLA+     *)
(* strings.  The interpreter is Python 3: `raise(ValueError, msg)` raises  *)
(* a tuple, which Python 3 answers with TypeError.                         *)
(***************************************************************************)
EXTENDS Integers, Sequences, FiniteSets, TLC

VARIABLES fs, ds, ctor, pc, frame, ret, raised

vars == <<fs, ds, ctor, pc, frame, ret, raised>>

---------------------------------------------------------------------------
(* Bounds of the model *)

\* the most class directories below the root of a directory tree
MaxDirs == 2
\* the most rows of a manifest
MaxRows == 2
\* the largest samples_per_class, n_classes and n_features of a DummyDataset
MaxDummy == 2

---------------------------------------------------------------------------
(* Strings *)

\* s < t in Python's order on str: lexicographic by code point
RECURSIVE StrLess(_, _)
StrLess(s, t) ==
    IF t = <<>> THEN FALSE
    ELSE IF s = <<>> THEN TRUE
    ELSE IF Head(s) # Head(t) THEN Head(s) < Head(t)
    ELSE StrLess(Tail(s), Tail(t))

\* str.endswith
EndsWith(s, suffix) ==
    /\ Len(s) >= Len(suffix)
    /\ SubSeq(s, Len(s) - Len(suffix) + 1, Len(s)) = suffix

\* '.png'
DotPng == <<46, 112, 110, 103>>

\* '{}.{}'.format(alphabet, character)
DotJoin(a, b) == a \o <<46>> \o b

\* root.split('/')[-1] and root.split('/')[-2]; a root is kept as the
\* sequence of its '/'-separated segments
LastSegment(root) == root[Len(root)]
SecondLastSegment(root) == root[Len(root) - 1]

\* os.path.join(root, f): f follows a '/' that is added only when root does
\* not already end with one (a root that ends with '/' has an empty last
\* segment)
PathJoin(root, f) ==
    IF root # <<>> /\ LastSegment(root) = <<>>
    THEN SubSeq(root, 1, Len(root) - 1) \o <<f>>
    ELSE Append(root, f)

---------------------------------------------------------------------------
(* The backing store *)

\* segment names: 'a', 'ab', 'x', 'y'
SegA == <<97>>
SegAB == <<97, 98>>
SegX == <<120>>
SegY == <<121>>

\* 'images_{}'.format(subset): the name of the directory walked
ImagesPrefix == <<105, 109, 97, 103, 101, 115, 95>>
SubsetName(subset) ==
    CASE subset = "background" ->
             <<98, 97, 99, 107, 103, 114, 111, 117, 110, 100>>
      [] subset = "evaluation" ->
             <<101, 118, 97, 108, 117, 97, 116, 105, 111, 110>>
      [] OTHER -> <<116, 114, 97, 105, 110>>
images_dir(subset) == ImagesPrefix \o SubsetName(subset)

\* file names: '0.png' (a readable image), '1.png' (a truncated image),
\* '2.txt' (not an image), '3.png' (named by a manifest but not on disk)
File0Png == <<48>> \o DotPng
File1Png == <<49>> \o DotPng
File2Txt == <<50, 46, 116, 120, 116>>
File3Png == <<51>> \o DotPng

\* the visit of the walked directory itself, its root written relative to
\* that directory ('': one empty segment).  The layout keeps no file directly
\* in the walked directory; TopEntryWithFile is one that holds a file all the
\* same
TopEntry == [root |-> <<<<>>>>, files |-> <<>>]
TopEntryWithFile == [root |-> <<<<>>>>, files |-> <<File0Png>>]

ClassRoots == {<<SegA, SegX>>, <<SegA, SegY>>, <<SegAB, SegX>>}

\* the file lists a directory can hold, in the order os.walk reports them
FileLists ==
    {<<>>, <<File0Png>>, <<File1Png>>, <<File2Txt>>,
     <<File0Png, File2Txt>>, <<File2Txt, File0Png>>, <<File0Png, File1Png>>}

DirEntries == [root : ClassRoots, files : FileLists]

\* sequences of at most n directory visits, no directory visited twice
RECURSIVE DirSeqs(_)
DirSeqs(n) ==
    IF n = 0 THEN {<<>>}
    ELSE LET shorter == DirSeqs(n - 1)
         IN  shorter \cup
             {Append(s, e) : s \in {t \in shorter : Len(t) = n - 1},
                             e \in DirEntries}

NoRepeat(s) == \A i, j \in 1..Len(s) : i # j => s[i].root # s[j].root

\* the visits of a walk below images_<subset>/, roots relative to it: nothing
\* for a directory that does not exist (os.walk swallows the scandir error),
\* else the directory's own visit and its class directories'; at most MaxDirs
\* of the visits hold files
Walks ==
    {<<>>}
    \cup {<<TopEntry>> \o s : s \in {t \in DirSeqs(MaxDirs) : NoRepeat(t)}}
    \cup {<<TopEntryWithFile>> \o s :
              s \in {t \in DirSeqs(MaxDirs - 1) : NoRepeat(t)}}

\* os.walk(DATA_PATH + '/.../images_{}/'.format(subset)): each visit's root is
\* the walked path followed by the relative root; the last two segments are
\* kept, so the walked directory's own root is <<'images_<subset>', ''>>
os_walk(walk, subset) ==
    [i \in 1..Len(walk) |->
        [root |-> IF Len(walk[i].root) = 1
                  THEN <<images_dir(subset)>> \o walk[i].root
                  ELSE walk[i].root,
         files |-> walk[i].files]]

\* the state of a path on disk, read off its file name
Stat(path) ==
    IF path = <<>> THEN "missing"
    ELSE LET f == LastSegment(path)
         IN  IF f = File3Png THEN "missing"
             ELSE IF f = File0Png THEN "image"
             ELSE "corrupt"

\* the pixels of the image stored at a path (a flattened single-channel array)
Pixels(path) ==
    <<Len(path[1]), Head(path[Len(path) - 1]) - 100, 7>>

\* the locations a manifest row can name: two readable images and a file
\* that is not on disk
Locations == {<<SegX, File0Png>>, <<SegY, File0Png>>, <<SegX, File3Png>>}

\* the class ids a manifest row can carry (7: an id outside any dense range)
ManifestClassIds == {0, 1, 7}

ManifestRows == [filepath : Locations, class_id : ManifestClassIds]

RECURSIVE RowSeqs(_)
RowSeqs(n) ==
    IF n = 0 THEN {<<>>}
    ELSE LET shorter == RowSeqs(n - 1)
         IN  shorter \cup
             {Append(s, e) : s \in {t \in shorter : Len(t) = n - 1},
                             e \in ManifestRows}

NoManifest == [exists |-> FALSE, rows |-> <<>>]
NoBlob == [exists |-> FALSE, len |-> 0]

\* the number of samples the blob file holds: fewer than the evaluation slice
\* needs, or the full LLD-logo file
BlobLens == {25000, 122920}

\* the stores a run starts from: nothing on disk, a directory tree, a
\* manifest, or the blob file.  np_float: whether the installed numpy still
\* has the alias np.float (removed in numpy 1.24)
Worlds ==
    {[walk |-> <<>>, manifest |-> NoManifest, blob |-> NoBlob, np_float |-> b] :
        b \in BOOLEAN}
    \cup
    {[walk |-> w, manifest |-> NoManifest, blob |-> NoBlob, np_float |-> TRUE] :
        w \in Walks \ {<<>>}}
    \cup
    {[walk |-> <<>>, manifest |-> [exists |-> TRUE, rows |-> r], blob |-> NoBlob,
      np_float |-> TRUE] : r \in RowSeqs(MaxRows)}
    \cup
    {[walk |-> <<>>, manifest |-> NoManifest, blob |-> [exists |-> TRUE, len |-> n],
      np_float |-> TRUE] : n \in BlobLens}

---------------------------------------------------------------------------
(* Index Builder: directory walk *)

\* the first pass of index_subset: the total handed to the progress bar
RECURSIVE count_pass(_)
count_pass(walk) ==
    IF walk = <<>> THEN 0
    ELSE Cardinality({i \in 1..Len(Head(walk).files) :
                         EndsWith(Head(walk).files[i], DotPng)})
         + count_pass(Tail(walk))

\* the inner loop of OmniglotDataset.index_subset over one directory's files
RECURSIVE omniglot_files(_, _, _)
omniglot_files(subset, root, files) ==
    IF files = <<>> THEN <<>>
    ELSE <<[subset |-> subset,
            alphabet |-> SecondLastSegment(root),
            class_name |-> DotJoin(SecondLastSegment(root), LastSegment(root)),
            filepath |-> PathJoin(root, Head(files))]>>
         \o omniglot_files(subset, root, Tail(files))

\* the second pass of OmniglotDataset.index_subset
RECURSIVE omniglot_index_pass(_, _)
omniglot_index_pass(subset, walk) ==
    IF walk = <<>> THEN <<>>
    ELSE IF Len(Head(walk).files) = 0 THEN omniglot_index_pass(subset, Tail(walk))
    ELSE omniglot_files(subset, Head(walk).root, Head(walk).files)
         \o omniglot_index_pass(subset, Tail(walk))

\* the inner loop of MiniImageNet.index_subset and of
\* ImageNetKamonDataset.index_subset (the same code)
RECURSIVE mini_files(_, _, _)
mini_files(subset, root, files) ==
    IF files = <<>> THEN <<>>
    ELSE <<[subset |-> subset,
            class_name |-> LastSegment(root),
            filepath |-> PathJoin(root, Head(files))]>>
         \o mini_files(subset, root, Tail(files))

\* the second pass of MiniImageNet.index_subset
RECURSIVE mini_index_pass(_, _)
mini_index_pass(subset, walk) ==
    IF walk = <<>> THEN <<>>
    ELSE IF Len(Head(walk).files) = 0 THEN mini_index_pass(subset, Tail(walk))
    ELSE mini_files(subset, Head(walk).root, Head(walk).files)
         \o mini_index_pass(subset, Tail(walk))

---------------------------------------------------------------------------
(* Label Encoder *)

\* Series.unique(): the distinct values in order of first appearance
RECURSIVE unique(_)
unique(names) ==
    IF names = <<>> THEN <<>>
    ELSE LET front == unique(SubSeq(names, 1, Len(names) - 1))
             last == names[Len(names)]
         IN  IF \E i \in 1..Len(front) : front[i] = last THEN front
             ELSE Append(front, last)

\* one insertion of sorted()
RECURSIVE insert_sorted(_, _)
insert_sorted(x, s) ==
    IF s = <<>> THEN <<x>>
    ELSE IF StrLess(x, Head(s)) THEN <<x>> \o s
    ELSE <<Head(s)>> \o insert_sorted(x, Tail(s))

\* sorted(names)
RECURSIVE sorted(_)
sorted(names) ==
    IF names = <<>> THEN <<>>
    ELSE insert_sorted(Head(names), sorted(Tail(names)))

\* df['class_name'] as a sequence
class_names(df) == [i \in 1..Len(df) |-> df[i].class_name]

\* a Label Encoder that forgets to sort: ids follow the order of the walk
unique_characters_unsorted(df) == unique(class_names(df))

\* self.unique_characters = sorted(self.df['class_name'].unique())
unique_characters(df) == sorted(unique(class_names(df)))

\* a Label Encoder that numbers the classes from 1
class_name_to_id_from_one(uc, num_classes) ==
    [c \in {uc[i] : i \in 1..num_classes} |->
        CHOOSE i \in 1..num_classes : uc[i] = c]

\* {self.unique_characters[i]: i for i in range(num_classes)}
class_name_to_id(uc, num_classes) ==
    [c \in {uc[i] : i \in 1..num_classes} |->
        (CHOOSE i \in 1..num_classes : uc[i] = c) - 1]

---------------------------------------------------------------------------
(* Dataframe helpers *)

\* df.assign(id=df.index.values): row i of the frame gets id i
assign_id(rows) ==
    [i \in 1..Len(rows) |-> rows[i] @@ ("id" :> (i - 1))]

\* df.assign(class_id=df['class_name'].apply(lambda c: class_name_to_id[c]))
assign_class_id(df, mapping) ==
    [i \in 1..Len(df) |-> df[i] @@ ("class_id" :> mapping[df[i].class_name])]

\* df.to_dict()[column]: keyed by the frame's index 0 .. len(df) - 1
to_dict(df, column) == [i \in 0..(Len(df) - 1) |-> df[i + 1][column]]

\* a read that takes the first row of the file for a header
read_csv_header(manifest) ==
    IF ~manifest.exists THEN [outcome |-> "FileNotFoundError", df |-> <<>>]
    ELSE IF manifest.rows = <<>> THEN [outcome |-> "ok", df |-> <<>>]
    ELSE [outcome |-> "ok", df |-> Tail(manifest.rows)]

\* pd.read_csv(csv_filepath, names=['filepath', 'class_id']): no header row,
\* every row kept in order; the columns are named by the call, so a file
\* without rows gives a frame without rows; a missing file raises
read_csv(manifest) ==
    IF ~manifest.exists THEN [outcome |-> "FileNotFoundError", df |-> <<>>]
    ELSE [outcome |-> "ok", df |-> manifest.rows]

---------------------------------------------------------------------------
(* Constructors.  Each yields the outcome of the call, the accesses to the *)
(* backing store it made, in order, and the instance (none on a raise).    *)

NoDataset == [kind |-> "none"]

Raise(kind, io) == [outcome |-> kind, io |-> io, self |-> NoDataset]
Built(io, self) == [outcome |-> "ok", io |-> io, self |-> self]

ValidSubsets == {"background", "evaluation"}

\* the Compose of MiniImageNet and of ImageNetKamonDataset('background')
TransformImageNet == "CenterCrop224_Resize84_ToTensor_Normalize"
\* the Compose of the manifest variants and of LogoDataset
TransformKamon == "Resize86_Grayscale3_ToTensor"
\* the min-max rescale written out in OmniglotDataset.__getitem__
TransformOmniglot == "MinMax"

\* `raise(ValueError, '...')`: Python 3 refuses to raise a tuple
raise_subset_error == "TypeError"

OmniglotDataset_init(world, subset) ==
    IF subset \notin ValidSubsets THEN Raise(raise_subset_error, <<>>)
    ELSE
    LET io == <<"os.walk", "os.walk">>
        images == omniglot_index_pass(subset, os_walk(world.walk, subset))
        df0 == assign_id(images)
    IN  IF Len(df0) = 0 THEN Raise("KeyError", io)
        ELSE
        LET uc == unique_characters(df0)
            num_classes == Len(unique(class_names(df0)))
            mapping == class_name_to_id(uc, num_classes)
            df == assign_class_id(df0, mapping)
        IN  Built(io, [kind |-> "OmniglotDataset",
                       subset |-> subset,
                       df |-> df,
                       unique_characters |-> uc,
                       class_name_to_id |-> mapping,
                       datasetid_to_filepath |-> to_dict(df, "filepath"),
                       datasetid_to_class_id |-> to_dict(df, "class_id"),
                       transform |-> TransformOmniglot])

MiniImageNet_init(world, subset) ==
    IF subset \notin ValidSubsets THEN Raise(raise_subset_error, <<>>)
    ELSE
    LET io == <<"os.walk", "os.walk">>
        images == mini_index_pass(subset, os_walk(world.walk, subset))
        df0 == assign_id(images)
    IN  IF Len(df0) = 0 THEN Raise("KeyError", io)
        ELSE
        LET uc == unique_characters(df0)
            num_classes == Len(unique(class_names(df0)))
            mapping == class_name_to_id(uc, num_classes)
            df == assign_class_id(df0, mapping)
        IN  Built(io, [kind |-> "MiniImageNet",
                       subset |-> subset,
                       df |-> df,
                       unique_characters |-> uc,
                       class_name_to_id |-> mapping,
                       datasetid_to_filepath |-> to_dict(df, "filepath"),
                       datasetid_to_class_id |-> to_dict(df, "class_id"),
                       transform |-> TransformImageNet])

ImageNetKamonDataset_init(world, subset) ==
    IF subset \notin ValidSubsets THEN Raise(raise_subset_error, <<>>)
    ELSE IF subset = "background" THEN
        LET io == <<"os.walk", "os.walk">>
            images == mini_index_pass(subset, os_walk(world.walk, subset))
            df0 == assign_id(images)
        IN  IF Len(df0) = 0 THEN Raise("KeyError", io)
            ELSE
            LET uc == unique_characters(df0)
                num_classes == Len(unique(class_names(df0)))
                mapping == class_name_to_id(uc, num_classes)
                df == assign_class_id(df0, mapping)
            IN  Built(io, [kind |-> "ImageNetKamonDataset",
                           subset |-> subset,
                           df |-> df,
                           unique_characters |-> uc,
                           class_name_to_id |-> mapping,
                           datasetid_to_filepath |-> to_dict(df, "filepath"),
                           datasetid_to_class_id |-> to_dict(df, "class_id"),
                           transform |-> TransformImageNet])
    ELSE
        LET io == <<"read_csv">>
            csv == read_csv(world.manifest)
        IN  IF csv.outcome # "ok" THEN Raise(csv.outcome, io)
            ELSE
            LET df == assign_id(csv.df)
            IN  Built(io, [kind |-> "ImageNetKamonDataset",
                           subset |-> subset,
                           df |-> df,
                           datasetid_to_filepath |-> to_dict(df, "filepath"),
                           datasetid_to_class_id |-> to_dict(df, "class_id"),
                           transform |-> TransformKamon])

KamonDataset_init(world, subset) ==
    IF subset \notin ValidSubsets THEN Raise(raise_subset_error, <<>>)
    ELSE
    LET io == <<"read_csv">>
        csv == read_csv(world.manifest)
    IN  IF csv.outcome # "ok" THEN Raise(csv.outcome, io)
        ELSE
        LET df == assign_id(csv.df)
        IN  Built(io, [kind |-> "KamonDataset",
                       subset |-> subset,
                       df |-> df,
                       datasetid_to_filepath |-> to_dict(df, "filepath"),
                       datasetid_to_class_id |-> to_dict(df, "class_id"),
                       transform |-> TransformKamon])

OldKamonDataset_init(world, subset) ==
    IF subset \notin ValidSubsets THEN Raise(raise_subset_error, <<>>)
    ELSE
    LET io == <<"read_csv">>
        csv == read_csv(world.manifest)
    IN  IF csv.outcome # "ok" THEN Raise(csv.outcome, io)
        ELSE
        LET df == assign_id(csv.df)
        IN  Built(io, [kind |-> "OldKamonDataset",
                       subset |-> subset,
                       df |-> df,
                       datasetid_to_filepath |-> to_dict(df, "filepath"),
                       datasetid_to_class_id |-> to_dict(df, "class_id"),
                       transform |-> TransformKamon])

\* the slice of the blob each subset takes
BackgroundStart == 0
BackgroundEnd == 20000
EvaluationStart == 20000
EvaluationEnd == 30000

\* hdf5_file['labels/resnet/rc_32'][image_id]: one of 32 cluster labels; the
\* labels of the two slices differ at equal offsets into the slice
BlobLabel(image_id) == ((image_id \div 1000) + image_id) % 32

\* hdf5_file['shapes'][image_id]: (channels, height, width)
BlobShape(image_id) == <<3, 1 + (image_id % 2), 1 + (image_id % 3)>>

\* hdf5_file['data'][image_id, :, :shape[1], :shape[2]]
BlobData(image_id, shape) == <<image_id % 256, shape[2], shape[3]>>

\* A blob shorter than the slice makes the first read past its end raise
\* (h5py 3: IndexError).
\* The instance keeps its two dicts as the range of their keys, the offset
\* from key to image_id and the labels region read: key i holds image_id
\* i + image_id_offset and class_id labels[i + image_id_offset].
LogoDataset_init(world, subset) ==
    IF ~world.blob.exists THEN Raise("FileNotFoundError", <<"h5py.File">>)
    ELSE IF subset \notin ValidSubsets
    THEN Raise(raise_subset_error, <<"h5py.File">>)
    ELSE
    LET starting_index ==
            IF subset = "background" THEN BackgroundStart ELSE EvaluationStart
        ending_index ==
            IF subset = "background" THEN BackgroundEnd ELSE EvaluationEnd
        io == <<"h5py.File", "h5py.read">>
    IN  IF ending_index > world.blob.len THEN Raise("IndexError", io)
        ELSE Built(io, [kind |-> "LogoDataset",
                        subset |-> subset,
                        hdf5_filepath |-> "LLD-logo.hdf5",
                        index_stop |-> ending_index - starting_index,
                        image_id_offset |-> starting_index,
                        labels |-> "labels/resnet/rc_32",
                        transform |-> TransformKamon])

DummyDataset_init(samples_per_class, n_classes, n_features) ==
    LET length == samples_per_class * n_classes
        rows == [i \in 1..length |-> [class_id |-> (i - 1) % n_classes]]
    IN  Built(<<>>, [kind |-> "DummyDataset",
                     samples_per_class |-> samples_per_class,
                     n_classes |-> n_classes,
                     n_features |-> n_features,
                     df |-> assign_id(rows)])

---------------------------------------------------------------------------
(* Dataset Facade *)

FileKinds ==
    {"OmniglotDataset", "MiniImageNet", "ImageNetKamonDataset", "KamonDataset",
     "OldKamonDataset"}

\* __len__
dataset_len(self) ==
    IF self.kind = "LogoDataset" THEN self.index_stop
    ELSE IF self.kind = "DummyDataset" THEN self.samples_per_class * self.n_classes
    ELSE Len(self.df)

\* OmniglotDataset.num_classes and MiniImageNet.num_classes
num_classes_by_name(self) == Len(unique(class_names(self.df)))

\* ImageNetKamonDataset.num_classes
num_classes_by_id(self) ==
    Len(unique([i \in 1..Len(self.df) |-> self.df[i].class_id]))

NoSample == [pipeline |-> "none", data |-> <<>>]
\* what a call of __getitem__ ends with: a raise, or the pair it returns
Raises(item, kind) ==
    [item |-> item, outcome |-> kind, sample |-> NoSample, label |-> -1]
Returns(item, sample, label) ==
    [item |-> item, outcome |-> "ok", sample |-> sample, label |-> label]
NoRet == Raises(0, "none")

\* d.pop(k): the value, or KeyError; the key is taken out of the dict
dict_pop(d, k) ==
    IF k \in DOMAIN d
    THEN [found |-> TRUE, value |-> d[k], dict |-> [j \in DOMAIN d \ {k} |-> d[j]]]
    ELSE [found |-> FALSE, value |-> d, dict |-> d]

\* d[k] on a dict: the value, or KeyError; the dict is left as it was
dict_getitem(d, k) ==
    IF k \in DOMAIN d THEN [found |-> TRUE, value |-> d[k], dict |-> d]
    ELSE [found |-> FALSE, value |-> d, dict |-> d]

\* a decode that swallows its errors and hands back a blank image
image_open_or_blank(path) ==
    IF Stat(path) = "image" THEN [outcome |-> "ok", image |-> Pixels(path)]
    ELSE [outcome |-> "ok", image |-> <<0, 0, 1>>]

\* io.imread(path) and Image.open(path) followed by the decode
image_open(path) ==
    IF Stat(path) = "missing" THEN [outcome |-> "FileNotFoundError", image |-> <<>>]
    ELSE IF Stat(path) = "corrupt" THEN [outcome |-> "DecodeError", image |-> <<>>]
    ELSE [outcome |-> "ok", image |-> Pixels(path)]

SeqMin(s) == CHOOSE m \in {s[i] : i \in 1..Len(s)} : \A i \in 1..Len(s) : m <= s[i]
SeqMax(s) == CHOOSE m \in {s[i] : i \in 1..Len(s)} : \A i \in 1..Len(s) : m >= s[i]

\* the fixed pipeline, as a value per pixel <<numerator, denominator>>:
\* Omniglot's (x - min) / (max - min); ToTensor's x / 255 for the Compose
\* pipelines, whose crop, resize and normalisation stay in the pipeline's name
transform(pipeline, image) ==
    [pipeline |-> pipeline,
     data |-> IF pipeline = TransformOmniglot
              THEN [i \in 1..Len(image) |->
                       <<image[i] - SeqMin(image), SeqMax(image) - SeqMin(image)>>]
              ELSE [i \in 1..Len(image) |-> <<image[i], 255>>]]

\* the first lookup of __getitem__: self.datasetid_to_filepath[item], or for
\* LogoDataset  h5py.File(...)  and  self.datasetid_to_image_id[item]
locate(self, item) ==
    IF self.kind = "LogoDataset"
    THEN IF item \in 0..(self.index_stop - 1)
         THEN [found |-> TRUE, filepath |-> <<>>,
               image_id |-> item + self.image_id_offset, self |-> self]
         ELSE [found |-> FALSE, filepath |-> <<>>, image_id |-> -1, self |-> self]
    ELSE LET look == dict_getitem(self.datasetid_to_filepath, item)
         IN  [found |-> look.found,
              filepath |-> IF look.found THEN look.value ELSE <<>>,
              image_id |-> -1,
              self |-> [self EXCEPT !.datasetid_to_filepath = look.dict]]

\* the decode of __getitem__: the image file, or the blob's data cut to shape
load(self, f) ==
    IF self.kind = "LogoDataset"
    THEN [outcome |-> "ok", image |-> BlobData(f.image_id, BlobShape(f.image_id))]
    ELSE image_open(f.filepath)

\* a label read at the dataset id, not at the blob index of the record
label_of_unshifted(self, item) ==
    IF self.kind = "LogoDataset" THEN BlobLabel(item)
    ELSE dict_getitem(self.datasetid_to_class_id, item).value

\* label = self.datasetid_to_class_id[item]
label_of(self, item) ==
    IF self.kind = "LogoDataset" THEN BlobLabel(item + self.image_id_offset)
    ELSE dict_getitem(self.datasetid_to_class_id, item).value

\* DummyDataset.__getitem__
DummyDataset_getitem(self, world, item) ==
    IF self.n_classes = 0 THEN Raises(item, "ZeroDivisionError")
    ELSE IF ~world.np_float THEN Raises(item, "AttributeError")
    ELSE LET class_id == item % self.n_classes
         IN  Returns(item,
                     [pipeline |-> "array",
                      data |-> <<<<item, 1>>>> \o
                               [i \in 1..self.n_features |-> <<class_id, 1>>]],
                     class_id)

\* __getitem__ run from its first line to its last with no other call between
getitem(self, world, item) ==
    IF self.kind = "DummyDataset" THEN DummyDataset_getitem(self, world, item)
    ELSE LET at == locate(self, item)
         IN  IF ~at.found THEN Raises(item, "KeyError")
             ELSE LET img == load(self, at)
                  IN  IF img.outcome # "ok" THEN Raises(item, img.outcome)
                      ELSE Returns(item, transform(self.transform, img.image),
                                   label_of(self, item))

---------------------------------------------------------------------------
(* The state machine *)

\* the number of callers that may be inside __getitem__ at once
NReaders == 2
Readers == 1..NReaders

\* the locals of one call of __getitem__
EmptyFrame == [item |-> 0, filepath |-> <<>>, image_id |-> -1, instance |-> NoSample]

\* locals kept on the instance: one set for every caller
FrameOnInstance(r) == 1

\* each call has locals of its own
FrameOf(r) == r

Subsets == {"background", "evaluation", "train"}

WalkKinds == {"OmniglotDataset", "MiniImageNet", "ImageNetKamonDataset"}
ManifestKinds == {"KamonDataset", "OldKamonDataset", "ImageNetKamonDataset"}
SubsetKinds == WalkKinds \cup ManifestKinds \cup {"LogoDataset"}

DummyArgs == [spc : 0..MaxDummy, ncls : 0..MaxDummy, nfeat : 0..MaxDummy]
NoArgs == [spc |-> 0, ncls |-> 0, nfeat |-> 0]

\* the constructor calls tried on a store: every class on an empty disk, and
\* on a populated store the classes that read that kind of store
Calls(world) ==
    IF world.walk # <<>> THEN [kind : WalkKinds, subset : Subsets, args : {NoArgs}]
    ELSE IF world.manifest.exists
    THEN [kind : ManifestKinds, subset : Subsets, args : {NoArgs}]
    ELSE IF world.blob.exists
    THEN [kind : {"LogoDataset"}, subset : Subsets, args : {NoArgs}]
    ELSE [kind : SubsetKinds, subset : Subsets, args : {NoArgs}]
         \cup [kind : {"DummyDataset"}, subset : {"n/a"}, args : DummyArgs]

\* the constructor a call runs
construct(world, call) ==
    CASE call.kind = "OmniglotDataset" -> OmniglotDataset_init(world, call.subset)
      [] call.kind = "MiniImageNet" -> MiniImageNet_init(world, call.subset)
      [] call.kind = "ImageNetKamonDataset" ->
             ImageNetKamonDataset_init(world, call.subset)
      [] call.kind = "KamonDataset" -> KamonDataset_init(world, call.subset)
      [] call.kind = "OldKamonDataset" -> OldKamonDataset_init(world, call.subset)
      [] call.kind = "LogoDataset" -> LogoDataset_init(world, call.subset)
      [] call.kind = "DummyDataset" ->
             DummyDataset_init(call.args.spc, call.args.ncls, call.args.nfeat)

NoCtor == [kind |-> "none", subset |-> "n/a", outcome |-> "none", io |-> <<>>]

\* the indices a caller tries: both ends of the range and one past each
Items(self) ==
    IF self.kind = "none" THEN {}
    ELSE {-1, 0, dataset_len(self) - 1, dataset_len(self)}

Init ==
    /\ fs \in Worlds
    /\ ds = NoDataset
    /\ ctor = NoCtor
    /\ pc = [r \in Readers |-> "idle"]
    /\ frame = [r \in Readers |-> EmptyFrame]
    /\ ret = [r \in Readers |-> NoRet]
    /\ raised = FALSE

\* a constructor call, from its first line to its return or raise
Construct(call) ==
    /\ \A r \in Readers : pc[r] = "idle"
    /\ LET res == construct(fs, call)
       IN  /\ ds' = res.self
           /\ ctor' = [kind |-> call.kind, subset |-> call.subset,
                       outcome |-> res.outcome, io |-> res.io]
    /\ frame' = [r \in Readers |-> EmptyFrame]
    /\ ret' = [r \in Readers |-> NoRet]
    /\ raised' = FALSE
    /\ UNCHANGED <<fs, pc>>

\* __getitem__(item), up to the lookup of the sample's location
Locate(r, item) ==
    /\ pc[r] = "idle"
    /\ ds.kind \in FileKinds \cup {"LogoDataset"}
    /\ item \in Items(ds)
    /\ LET at == locate(ds, item)
       IN  /\ ds' = at.self
           /\ IF at.found
              THEN /\ frame' = [frame EXCEPT ![FrameOf(r)] =
                                   [item |-> item, filepath |-> at.filepath,
                                    image_id |-> at.image_id, instance |-> NoSample]]
                   /\ pc' = [pc EXCEPT ![r] = "decode"]
                   /\ ret' = ret
              ELSE /\ ret' = [ret EXCEPT ![r] = Raises(item, "KeyError")]
                   /\ UNCHANGED <<frame, pc>>
    /\ UNCHANGED <<fs, ctor, raised>>

\* __getitem__: decode the sample and run the transform pipeline
Decode(r) ==
    /\ pc[r] = "decode"
    /\ LET f == frame[FrameOf(r)]
           img == load(ds, f)
       IN  IF img.outcome = "ok"
           THEN /\ frame' = [frame EXCEPT ![FrameOf(r)].instance =
                                transform(ds.transform, img.image)]
                /\ pc' = [pc EXCEPT ![r] = "label"]
                /\ UNCHANGED <<ret, raised>>
           ELSE /\ ret' = [ret EXCEPT ![r] = Raises(f.item, img.outcome)]
                /\ frame' = [frame EXCEPT ![FrameOf(r)] = EmptyFrame]
                /\ pc' = [pc EXCEPT ![r] = "idle"]
                /\ raised' = TRUE
    /\ UNCHANGED <<fs, ds, ctor>>

\* __getitem__: look the label up and return the pair
Label(r) ==
    /\ pc[r] = "label"
    /\ LET f == frame[FrameOf(r)]
       IN  ret' = [ret EXCEPT ![r] = Returns(f.item, f.instance, label_of(ds, f.item))]
    /\ frame' = [frame EXCEPT ![FrameOf(r)] = EmptyFrame]
    /\ pc' = [pc EXCEPT ![r] = "idle"]
    /\ UNCHANGED <<fs, ds, ctor, raised>>

\* DummyDataset.__getitem__(item): no lookup, nothing read from a store
DummyGet(r, item) ==
    /\ pc[r] = "idle"
    /\ ds.kind = "DummyDataset"
    /\ item \in Items(ds)
    /\ ret' = [ret EXCEPT ![r] = DummyDataset_getitem(ds, fs, item)]
    /\ UNCHANGED <<fs, ds, ctor, pc, frame, raised>>

GetStep(r) ==
    \/ \E item \in Items(ds) : Locate(r, item)
    \/ Decode(r)
    \/ Label(r)
    \/ \E item \in Items(ds) : DummyGet(r, item)

\* one caller at a time: the single-threaded use of a dataset
Next ==
    \/ \E call \in Calls(fs) : Construct(call)
    \/ GetStep(1)

Spec == Init /\ [][Next]_vars

\* the stores of the concurrent runs: one of each kind
ConcWalk ==
    <<TopEntry,
      [root |-> <<SegAB, SegX>>, files |-> <<File0Png, File1Png>>],
      [root |-> <<SegA, SegX>>, files |-> <<File0Png>>]>>
ConcRows ==
    <<[filepath |-> <<SegX, File0Png>>, class_id |-> 7],
      [filepath |-> <<SegY, File0Png>>, class_id |-> 0]>>
ConcWorlds ==
    {w \in Worlds :
        /\ w.np_float
        /\ w.walk \in {<<>>, ConcWalk}
        /\ w.manifest.exists => w.manifest.rows = ConcRows
        /\ w.blob.exists => w.blob.len >= EvaluationEnd}

\* the constructor calls of the concurrent runs
ConcCalls(world) ==
    {c \in Calls(world) :
        /\ c.subset # "train"
        /\ c.kind = "DummyDataset" => c.args = [spc |-> 1, ncls |-> 2, nfeat |-> 1]}

InitConc ==
    /\ fs \in ConcWorlds
    /\ ds = NoDataset
    /\ ctor = NoCtor
    /\ pc = [r \in Readers |-> "idle"]
    /\ frame = [r \in Readers |-> EmptyFrame]
    /\ ret = [r \in Readers |-> NoRet]
    /\ raised = FALSE

\* the dataset is built once, then read by every caller, their steps interleaved
NextConc ==
    \/ \E call \in ConcCalls(fs) : ctor.kind = "none" /\ Construct(call)
    \/ \E r \in Readers : GetStep(r)

SpecConc == InitConc /\ [][NextConc]_vars

---------------------------------------------------------------------------
(* What the store holds, read off the store itself *)

\* a constructor call has returned an instance
Constructed == ctor.outcome = "ok" /\ ds.kind # "none"

\* the instance was indexed by a directory walk / from a manifest
WalkBacked ==
    /\ Constructed
    /\ \/ ds.kind \in {"OmniglotDataset", "MiniImageNet"}
       \/ ds.kind = "ImageNetKamonDataset" /\ ds.subset = "background"
ManifestBacked ==
    /\ Constructed
    /\ \/ ds.kind \in {"KamonDataset", "OldKamonDataset"}
       \/ ds.kind = "ImageNetKamonDataset" /\ ds.subset = "evaluation"

\* a call of __getitem__ by r has ended
Finished(r) == pc[r] = "idle" /\ ret[r].outcome # "none"

ValidIndex(i) == 0 <= i /\ i < dataset_len(ds)

\* the tree as the dataset's subset names it
SeenWalk == os_walk(fs.walk, ds.subset)

\* every file below the root, in walk order, as [root, file]
RECURSIVE FilesOfWalk(_)
FilesOfWalk(walk) ==
    IF walk = <<>> THEN <<>>
    ELSE [i \in 1..Len(Head(walk).files) |->
             [root |-> Head(walk).root, file |-> Head(walk).files[i]]]
         \o FilesOfWalk(Tail(walk))

\* the class a directory stands for, by the layout of the dataset
ClassOfRoot(kind, root) ==
    IF kind = "OmniglotDataset" THEN root[1] \o <<46>> \o root[2] ELSE root[2]

\* the distinct classes of the tree
ClassesOfWalk(kind, walk) ==
    {ClassOfRoot(kind, FilesOfWalk(walk)[i].root) : i \in 1..Len(FilesOfWalk(walk))}

\* the rank of a class among the distinct classes, in sorted order
RankIn(c, classes) == Cardinality({d \in classes : StrLess(d, c)})

---------------------------------------------------------------------------
(* Claims *)

\* C1: constructing any subset-taking dataset with a subset that is neither
\* 'background' nor 'evaluation' fails with ValueError, before any access to
\* the filesystem (no walk, no manifest read, no blob open).
C1_InvalidSubsetIsValueErrorBeforeIO ==
    (ctor.kind \in SubsetKinds /\ ctor.subset \notin ValidSubsets)
        => (ctor.outcome = "ValueError" /\ ctor.io = <<>>)

\* C2: on every constructed dataset, DummyDataset included, get(index) with
\* index outside 0 <= index < length() fails with the out-of-range kind and
\* never returns a (sample, label) pair.  Taken at its weakest: whatever the
\* kind of the raise, the call does not return a pair.
C2_OutOfRangeGetFails ==
    \A r \in Readers :
        (Constructed /\ Finished(r) /\ ~ValidIndex(ret[r].item))
            => ret[r].outcome # "ok"

\* C3 as stated: on every constructed dataset that has num_classes(), the
\* directory-walk ones and the manifest-backed ImageNetKamonDataset alike, the
\* label get(i) returns lies in [0, num_classes()).
C3_LabelInRangeEverywhere ==
    \A r \in Readers :
        (Finished(r) /\ ret[r].outcome = "ok" /\ (WalkBacked \/
            (ManifestBacked /\ ds.kind = "ImageNetKamonDataset")))
            => LET n == IF WalkBacked /\ ds.kind # "ImageNetKamonDataset"
                        THEN num_classes_by_name(ds) ELSE num_classes_by_id(ds)
               IN  0 <= ret[r].label /\ ret[r].label < n

\* C3 amended: on a directory-walk dataset the label get(i) returns lies in
\* [0, num_classes()) and num_classes() is the number of distinct class names
\* of the tree; on ImageNetKamonDataset('evaluation') num_classes() is the
\* number of distinct class ids of the manifest and the label is the id of
\* manifest row i as written, dense or not.
C3_LabelInRangeForWalks ==
    /\ WalkBacked =>
          LET n == IF ds.kind = "ImageNetKamonDataset"
                   THEN num_classes_by_id(ds) ELSE num_classes_by_name(ds)
          IN  /\ n = Cardinality(ClassesOfWalk(ds.kind, SeenWalk))
              /\ \A r \in Readers :
                    (Finished(r) /\ ret[r].outcome = "ok")
                        => (0 <= ret[r].label /\ ret[r].label < n)
    /\ (ManifestBacked /\ ds.kind = "ImageNetKamonDataset") =>
          /\ num_classes_by_id(ds) =
                Cardinality({fs.manifest.rows[i].class_id :
                                i \in 1..Len(fs.manifest.rows)})
          /\ \A r \in Readers :
                (Finished(r) /\ ret[r].outcome = "ok")
                    => ret[r].label = fs.manifest.rows[ret[r].item + 1].class_id

\* get on a directory-walk dataset of two classes has returned the larger label
C3_Witness ==
    /\ WalkBacked
    /\ num_classes_by_name(ds) = 2
    /\ Finished(1) /\ ret[1].outcome = "ok" /\ ret[1].label = 1

\* C4: on a directory-walk dataset length() is the number of files of the
\* tree whose name ends with '.png'; other files add nothing to it.
C4_LengthCountsPngOnly ==
    WalkBacked => dataset_len(ds) = count_pass(fs.walk)

\* a directory-walk dataset whose tree holds a file that is not a '.png'
C4_Witness ==
    /\ WalkBacked
    /\ dataset_len(ds) > count_pass(fs.walk)

\* C5: on a directory-walk dataset the class-name-to-id mapping is a bijection
\* from the distinct class names onto [0, num_classes()), each name's id its
\* rank in the sorted order of the distinct names; it is a function of the set
\* of names alone, whatever the order of the walk and the files per class.
C5_MappingIsSortedRank ==
    WalkBacked =>
        LET classes == ClassesOfWalk(ds.kind, SeenWalk)
            n == Len(ds.unique_characters)
        IN  /\ DOMAIN ds.class_name_to_id = classes
            /\ n = Cardinality(classes)
            /\ \A c \in classes : ds.class_name_to_id[c] = RankIn(c, classes)
            /\ {ds.class_name_to_id[c] : c \in classes} = 0..(n - 1)
            /\ \A c, d \in classes :
                   ds.class_name_to_id[c] = ds.class_name_to_id[d] => c = d
            /\ \A i \in 1..Len(ds.df) :
                   ds.df[i].class_id = RankIn(ds.df[i].class_name, classes)

\* two classes met in descending order by the walk, one of them with two files
C5_Witness ==
    /\ WalkBacked
    /\ Len(ds.unique_characters) = 2
    /\ Len(ds.df) = 3
    /\ ds.df[1].class_id = 1
    /\ ds.df[3].class_id = 0

\* C6: constructing a dataset whose root directory (directory-walk variants)
\* or manifest file (manifest variants) does not exist fails with the
\* not-found kind, and yields no instance.
C6_MissingStoreIsNotFound ==
    LET walks == \/ ctor.kind \in {"OmniglotDataset", "MiniImageNet"}
                 \/ ctor.kind = "ImageNetKamonDataset" /\ ctor.subset = "background"
        reads == \/ ctor.kind \in {"KamonDataset", "OldKamonDataset"}
                 \/ ctor.kind = "ImageNetKamonDataset" /\ ctor.subset = "evaluation"
    IN  (/\ ctor.subset \in ValidSubsets
         /\ \/ walks /\ fs.walk = <<>>
            \/ reads /\ ~fs.manifest.exists)
            => (ctor.outcome = "FileNotFoundError" /\ ds = NoDataset)

\* the sample and label of manifest row i, as get(i) is to return them
RowPair(i) ==
    LET row == fs.manifest.rows[i + 1]
    IN  Returns(i, transform(TransformKamon, Pixels(row.filepath)), row.class_id)

\* C7: a manifest-backed dataset built from a headerless manifest of n rows
\* has length() = n, and get(i) decodes the sample at the location of row i
\* and returns the class_id of row i as written.
C7_ManifestRowsInOrder ==
    ManifestBacked =>
        /\ dataset_len(ds) = Len(fs.manifest.rows)
        /\ \A r \in Readers :
              (Finished(r) /\ ValidIndex(ret[r].item)
                 /\ Stat(fs.manifest.rows[ret[r].item + 1].filepath) = "image")
                  => ret[r] = RowPair(ret[r].item)

\* get(1) on a two-row manifest has returned the second row's sample and its
\* class id 7, an id outside [0, 2)
C7_Witness ==
    /\ ManifestBacked
    /\ dataset_len(ds) = 2
    /\ fs.manifest.rows[1].filepath # fs.manifest.rows[2].filepath
    /\ Finished(1) /\ ret[1].item = 1 /\ ret[1].outcome = "ok" /\ ret[1].label = 7

\* a step of some call of __getitem__
IsGetStep == \E r \in Readers : GetStep(r)

\* C8: a get leaves the dataset as it was (records, class table, pipeline,
\* length(), num_classes()), whether it returns or raises; a get of the index
\* the caller asked for last ends as that call ended.
C8_GetLeavesDatasetUnchanged ==
    [][IsGetStep =>
          /\ ds' = ds
          /\ dataset_len(ds') = dataset_len(ds)
          /\ \A r \in Readers :
                (ret[r].outcome # "none" /\ ret'[r].item = ret[r].item)
                    => ret'[r] = ret[r]]_vars

\* after a get that raised and a get that returned, the same index is being
\* fetched again
C8_Witness ==
    /\ Constructed
    /\ raised
    /\ ret[1].outcome = "ok"
    /\ pc[1] = "label"
    /\ frame[1].item = ret[1].item

\* the record of index i of a file-backed dataset, read off the store
RecordPath(i) ==
    IF ManifestBacked THEN fs.manifest.rows[i + 1].filepath
    ELSE LET rec == FilesOfWalk(SeenWalk)[i + 1]
         IN  IF rec.root[2] = <<>> THEN <<rec.root[1], rec.file>>
             ELSE <<rec.root[1], rec.root[2], rec.file>>
RecordLabel(i) ==
    IF ManifestBacked THEN fs.manifest.rows[i + 1].class_id
    ELSE RankIn(ClassOfRoot(ds.kind, FilesOfWalk(SeenWalk)[i + 1].root),
                ClassesOfWalk(ds.kind, SeenWalk))
RecordCount ==
    IF ManifestBacked THEN Len(fs.manifest.rows) ELSE Len(FilesOfWalk(SeenWalk))

\* C9: sample files are not checked at construction: a dataset whose index
\* names a missing or corrupt file is built, that record counted in length();
\* get on that index raises the decoder's error to the caller, and get on any
\* other valid index, before or after, returns that index's own pair.
C9_BadFileSurfacesAtGet ==
    (WalkBacked \/ ManifestBacked) =>
        /\ dataset_len(ds) = RecordCount
        /\ \A r \in Readers :
              (Finished(r) /\ ValidIndex(ret[r].item)) =>
                  LET i == ret[r].item
                      state == Stat(RecordPath(i))
                  IN  ret[r] =
                        IF state = "missing" THEN Raises(i, "FileNotFoundError")
                        ELSE IF state = "corrupt" THEN Raises(i, "DecodeError")
                        ELSE Returns(i, transform(ds.transform, Pixels(RecordPath(i))),
                                     RecordLabel(i))

\* a get on a bad record has raised, and a later get on another index returned
C9_Witness ==
    /\ WalkBacked \/ ManifestBacked
    /\ raised
    /\ Finished(1) /\ ret[1].outcome = "ok"
    /\ \E j \in 0..(dataset_len(ds) - 1) : Stat(RecordPath(j)) # "image"

\* C10: under every interleaving of the steps of concurrent callers, each
\* get(i) ends as it ends when run alone.
C10_ConcurrentGetsAsAlone ==
    \A r \in Readers :
        Finished(r) => ret[r] = getitem(ds, fs, ret[r].item)

\* two callers, each with a call behind it, are inside __getitem__ together,
\* past the decode, on different indices of a LogoDataset
C10_Witness ==
    /\ ds.kind = "LogoDataset"
    /\ pc[1] = "label" /\ pc[2] = "label"
    /\ frame[1].item # frame[2].item
    /\ ret[1].outcome = "ok" /\ ret[2].outcome = "ok"

\* the slice of the blob a subset is to take: [0, 20000) and [20000, 30000)
SliceOf(subset) ==
    IF subset = "background" THEN [start |-> 0, end |-> 20000]
    ELSE [start |-> 20000, end |-> 30000]

\* C11: the records of a LogoDataset are the slice [start, end) of the blob,
\* [0, 20000) for 'background' and [20000, 30000) for 'evaluation': length()
\* is end - start, dataset id i stands for blob index i + start, its label is
\* the entry of labels/resnet/rc_32 at that index, get(i) reads the shape and
\* the data at that index, and the two slices share no blob index.
C11_LogoRecordsAreTheSlice ==
    (Constructed /\ ds.kind = "LogoDataset") =>
        LET slice == SliceOf(ds.subset)
            other == SliceOf(IF ds.subset = "background" THEN "evaluation"
                             ELSE "background")
        IN  /\ dataset_len(ds) = slice.end - slice.start
            /\ slice.end <= fs.blob.len
            /\ \A r \in Readers :
                  /\ pc[r] # "idle" =>
                        /\ ValidIndex(frame[r].item)
                        /\ frame[r].image_id = frame[r].item + slice.start
                        /\ slice.start <= frame[r].image_id
                        /\ frame[r].image_id < slice.end
                        /\ ~(other.start <= frame[r].image_id
                               /\ frame[r].image_id < other.end)
                  /\ (Finished(r) /\ ValidIndex(ret[r].item)) =>
                        LET at == ret[r].item + slice.start
                        IN  ret[r] =
                              Returns(ret[r].item,
                                      transform(TransformKamon,
                                                BlobData(at, BlobShape(at))),
                                      BlobLabel(at))

\* get(9999) on LogoDataset('evaluation') has returned the last record of the
\* slice, and get(0) is past its lookup, at blob index 20000
C11_Witness ==
    /\ Constructed /\ ds.kind = "LogoDataset" /\ ds.subset = "evaluation"
    /\ ret[1].outcome = "ok" /\ ret[1].item = 9999
    /\ ret[1].label = BlobLabel(29999)
    /\ pc[1] = "label" /\ frame[1].item = 0 /\ frame[1].image_id = 20000

====
